---- MODULE Spec2Model ----
(***************************************************************************)
(* A model of lib/model.py: the SceneGraphGeneration driver.               *)
(*                                                                         *)
(* train() shares no state between the processes of a distributed run, so  *)
(* the processes are stepped together through its loop body (every         *)
(* process executes the same statement of the same iteration); each keeps  *)
(* its own loss_dict, losses and meters.  test() shares the file system,   *)
(* the barrier and the gather, so there every process has its own program  *)
(* counter and the steps interleave freely.                                *)
(***************************************************************************)
EXTENDS Integers, Sequences, FiniteSets, TLC

\* ------------------------------------------------------------------ bounds
WorldSize == 2      \* processes of the distributed run
MaxLen == 3         \* largest len(self.data_loader_train)
MaxPeriod == 2      \* largest cfg.SOLVER.CHECKPOINT_PERIOD
MaxLoss == 2        \* loss values are drawn from 1..MaxLoss
MaxResumes == 1     \* relaunches of train() from a saved checkpoint
MaxId == 1          \* image ids of the test set are 0..MaxId

Procs == 0 .. (WorldSize - 1)
ImageIds == 0 .. MaxId
LossKeyOrder == <<"loss_cls", "loss_reg">>
LossKeys == {LossKeyOrder[k] : k \in 1 .. Len(LossKeyOrder)}

VARIABLES
    op,               \* which public operation the run executes
    \* ---- train()
    cfg,              \* [CHECKPOINT_PERIOD |-> N]
    max_iter,         \* len(self.data_loader_train)
    loss_keys,        \* keys of the loss_dict the scene parser returns
    arguments,        \* self.arguments
    tpc,              \* position in train()
    start_iter,
    fetched,          \* batches taken from data_loader_train in this run
    i,                \* the loop index of train()
    loss_dict,        \* per process: loss_dict of the current iteration
    losses,           \* per process: losses of the current iteration
    logged,           \* per process: keyword arguments of meters.update
    backpropagated,   \* per process: <<value>> backward() was called on
    trace,            \* delegated calls of the current iteration, in order
    saved,            \* sp_checkpointer.save calls of this run, in order
    checkpoints,      \* checkpoint files on disk
    history,          \* loop indices whose optimizer step completed
    resumes,          \* relaunches so far
    resumed_at,       \* <<Len(history) at relaunch, iteration loaded>>
    \* ---- test()
    visualize,
    pc,               \* per process: position in test()
    results_dict,     \* per process
    pending,          \* per process: batch whose visualization waits on mkdir
    arrived,          \* processes inside synchronize()
    contributed,      \* processes inside all_gather()
    predictions,      \* <<list>> returned by _accumulate on the main process
    predictions_pth,  \* <<list>> stored in results/predictions.pth
    warnings,         \* warnings logged by _accumulate
    calls,            \* per process: counts of synchronize/all_gather/evaluate
    retval,           \* per process: what test() returned
    \* ---- both
    writes            \* file writes: [proc, path]

trainVars == <<cfg, max_iter, loss_keys, arguments, tpc, start_iter, fetched, i,
               loss_dict, losses, logged, backpropagated, trace, saved,
               checkpoints, history, resumes, resumed_at>>
testVars == <<visualize, pc, results_dict, pending, arrived, contributed,
              predictions, predictions_pth, warnings, calls, retval>>
vars == <<op, trainVars, testVars, writes>>

\* ------------------------------------------------ the communication layer
is_main_process(p) == p = 0
get_world_size == WorldSize
\* the checkpointer is built with save_to_disk set on the main process only
save_to_disk(p) == is_main_process(p)
\* synchronize() returns once every process has entered it
BarrierOpen == arrived = Procs
\* all_gather() returns once every process has contributed
GatherComplete == contributed = Procs
\* process p is blocked inside synchronize() or inside all_gather()
Waiting(p) ==
    \/ pc[p] = "synchronize" /\ ~BarrierOpen
    \/ pc[p] = "all_gather" /\ ~GatherComplete
\* all_gather() returns the contributions in rank order
all_gather(per_gpu) == [r \in 1 .. get_world_size |-> per_gpu[r - 1]]

\* ------------------------------------------------------------ pure helpers
EmptyDict == <<>>

RECURSIVE PySumFrom(_, _)
\* Python's sum(): a left fold from the start value
PySumFrom(acc, s) == IF s = <<>> THEN acc ELSE PySumFrom(acc + Head(s), Tail(s))

RECURSIVE ValuesFrom(_, _)
ValuesFrom(d, keys) ==
    IF keys = <<>> THEN <<>>
    ELSE IF Head(keys) \in DOMAIN d
         THEN <<d[Head(keys)]>> \o ValuesFrom(d, Tail(keys))
         ELSE ValuesFrom(d, Tail(keys))
\* loss_dict.values(), in the dict's key order
Values(d) == ValuesFrom(d, LossKeyOrder)

\* losses = sum(loss for loss in loss_dict.values())
Losses(d) == PySumFrom(0, Values(d))

\* variant: only the first value is taken
LossesReducedFirst(d) == Head(Values(d))
\* losses_reduced = sum(loss for loss in loss_dict_reduced.values())
LossesReduced(d) == PySumFrom(0, Values(d))

\* loss_dict_reduced = loss_dict
LossDictReduced(p, ld) == ld[p]

\* meters.update(loss=losses_reduced, **loss_dict_reduced)
MetersUpdate(lr, ldr) ==
    [k \in (DOMAIN ldr) \cup {"loss"} |-> IF k = "loss" THEN lr ELSE ldr[k]]

\* variant: the index of the next iteration is stored
SetIterationNext(args, idx) == [args EXCEPT !.iteration = idx + 1]
\* self.arguments["iteration"] = i
SetIteration(args, idx) == [args EXCEPT !.iteration = idx]

\* variant: the optimizer steps before the gradients are computed
OptimizeCallsStepFirst == <<"optimizer.step", "zero_grad", "backward">>
\* self.sp_optimizer.zero_grad(); losses.backward(); self.sp_optimizer.step()
OptimizeCalls == <<"zero_grad", "backward", "optimizer.step">>

\* variant: the period is tested on i instead of i + 1
PeriodicDueOffByOne(idx) == idx % cfg.CHECKPOINT_PERIOD = 0
\* (i + 1) % self.cfg.SOLVER.CHECKPOINT_PERIOD == 0
PeriodicDue(idx) == (idx + 1) % cfg.CHECKPOINT_PERIOD = 0

\* (i + 1) == max_iter
FinalDue(idx) == (idx + 1) = max_iter

PeriodicName(idx) == <<"checkpoint_", idx>>
FinalName == <<"checkpoint_final">>

\* the save calls of lines 97-100 for loop index idx, in order
SaveCalls(idx) ==
    (IF PeriodicDue(idx)
     THEN <<[name |-> PeriodicName(idx), iteration |-> arguments.iteration, at |-> idx]>>
     ELSE <<>>)
    \o
    (IF FinalDue(idx)
     THEN <<[name |-> FinalName, iteration |-> arguments.iteration, at |-> idx]>>
     ELSE <<>>)

RECURSIVE StoreAll(_, _)
\* the checkpoint files after the save calls s: a save replaces the file of its name
StoreAll(disk, s) ==
    IF s = <<>> THEN disk
    ELSE StoreAll({c \in disk : c.name # Head(s).name}
                    \cup {[name |-> Head(s).name, iteration |-> Head(s).iteration]},
                  Tail(s))

LossDicts == [loss_keys -> 1 .. MaxLoss]

\* variant: an existing key keeps its value
DictUpdateKeepFirst(d, e) ==
    [k \in (DOMAIN d) \cup (DOMAIN e) |-> IF k \in DOMAIN d THEN d[k] ELSE e[k]]
\* d.update(e)
DictUpdate(d, e) ==
    [k \in (DOMAIN d) \cup (DOMAIN e) |-> IF k \in DOMAIN e THEN e[k] ELSE d[k]]

RECURSIVE MergeFrom(_, _)
\* predictions = {}; for p in all_predictions: predictions.update(p)
MergeFrom(acc, all) ==
    IF all = <<>> THEN acc ELSE MergeFrom(DictUpdate(acc, Head(all)), Tail(all))

RECURSIVE Sorted(_)
\* list(sorted(keys))
Sorted(S) ==
    IF S = {} THEN <<>>
    ELSE LET m == CHOOSE x \in S : \A y \in S : x <= y
         IN <<m>> \o Sorted(S \ {m})

\* the scene parser's output for image img on process p
Output(p, img) == [by |-> p, img |-> img]

\* {img_id: result for img_id, result in zip(image_ids, output)}
Zip(p, image_ids) ==
    [img \in {image_ids[k] : k \in DOMAIN image_ids} |-> Output(p, img)]

\* visualize_folder = "visualize"
VisualizeFolder == <<"visualize">>
\* output_folder = "results"
OutputFolder == <<"results">>
\* os.path.join(output_folder, "predictions.pth")
PredictionsPath == <<"results/predictions.pth">>

\* os.path.exists(path)
Exists(path) == \E w \in writes : w.path = path

\* cv2.imwrite(".../detection_<id>.jpg") for every image of the batch
Imwrites(p, image_ids) ==
    {[proc |-> p, path |-> <<"visualize/detection_", image_ids[k]>>] : k \in DOMAIN image_ids}

\* the batches the test loader of process p can still yield
Batches(p) ==
    {Sorted(S) : S \in (SUBSET (ImageIds \ DOMAIN results_dict[p])) \ {{}}}

\* -------------------------------------------------------------------- Init
NoCalls == [synchronize |-> 0, all_gather |-> 0, evaluate |-> 0]

Init ==
    /\ op \in {"train", "test"}
    /\ IF op = "train"
       THEN /\ cfg \in [CHECKPOINT_PERIOD : 1 .. MaxPeriod]
            /\ max_iter \in 1 .. MaxLen
            /\ loss_keys \in (SUBSET LossKeys) \ {{}}
            /\ visualize = FALSE
       ELSE /\ cfg = [CHECKPOINT_PERIOD |-> 1]
            /\ max_iter = 1
            /\ loss_keys = LossKeys
            /\ visualize \in BOOLEAN
    /\ arguments = [iteration |-> 0]    \* no checkpoint to load on a first launch
    /\ tpc = "constructed"
    /\ start_iter = 0
    /\ fetched = 0
    /\ i = 0
    /\ loss_dict = [p \in Procs |-> EmptyDict]
    /\ losses = [p \in Procs |-> 0]
    /\ logged = [p \in Procs |-> EmptyDict]
    /\ backpropagated = [p \in Procs |-> <<>>]
    /\ trace = <<>>
    /\ saved = <<>>
    /\ checkpoints = {}
    /\ history = <<>>
    /\ resumes = 0
    /\ resumed_at = <<>>
    /\ pc = [p \in Procs |-> "loop"]
    /\ results_dict = [p \in Procs |-> EmptyDict]
    /\ pending = [p \in Procs |-> <<>>]
    /\ arrived = {}
    /\ contributed = {}
    /\ predictions = <<>>
    /\ predictions_pth = <<>>
    /\ warnings = 0
    /\ calls = [p \in Procs |-> NoCalls]
    /\ retval = [p \in Procs |-> "running"]
    /\ writes = {}                      \* the working directory starts empty

\* ----------------------------------------------------------------- train()
\* lines 44-51: start_iter = self.arguments["iteration"], max_iter = len(loader)
TrainStart ==
    /\ op = "train" /\ tpc = "constructed"
    /\ start_iter' = arguments.iteration
    /\ fetched' = 0
    /\ i' = arguments.iteration
    /\ tpc' = "loop"
    /\ UNCHANGED <<op, cfg, max_iter, loss_keys, arguments, loss_dict, losses, logged,
                   backpropagated, trace, saved, checkpoints, history, resumes,
                   resumed_at, testVars, writes>>

\* lines 52-55: the loader yields a batch; iteration := i; scheduler step
TrainIterate ==
    /\ op = "train" /\ tpc = "loop"
    /\ fetched < max_iter
    /\ i' = start_iter + fetched
    /\ fetched' = fetched + 1
    /\ arguments' = SetIteration(arguments, i')
    /\ trace' = <<"set_iteration", "scheduler.step">>
    /\ tpc' = "forward"
    /\ UNCHANGED <<op, cfg, max_iter, loss_keys, start_iter, loss_dict, losses, logged,
                   backpropagated, saved, checkpoints, history, resumes, resumed_at,
                   testVars, writes>>

\* line 52: the loader is exhausted, train() returns
TrainExhausted ==
    /\ op = "train" /\ tpc = "loop"
    /\ fetched = max_iter
    /\ tpc' = "done"
    /\ UNCHANGED <<op, cfg, max_iter, loss_keys, arguments, start_iter, fetched, i,
                   loss_dict, losses, logged, backpropagated, trace, saved,
                   checkpoints, history, resumes, resumed_at, testVars, writes>>

\* lines 58-64: forward pass, losses, loss_dict_reduced, meters.update
TrainForward ==
    /\ op = "train" /\ tpc = "forward"
    /\ \E ld \in [Procs -> LossDicts] :
        /\ loss_dict' = ld
        /\ losses' = [p \in Procs |-> Losses(ld[p])]
        /\ logged' = [p \in Procs |->
                        MetersUpdate(LossesReduced(LossDictReduced(p, ld)),
                                     LossDictReduced(p, ld))]
    /\ trace' = Append(trace, "forward")
    /\ tpc' = "optimize"
    /\ UNCHANGED <<op, cfg, max_iter, loss_keys, arguments, start_iter, fetched, i,
                   backpropagated, saved, checkpoints, history, resumes, resumed_at,
                   testVars, writes>>

\* lines 66-68: zero_grad, backward, optimizer step
TrainOptimize ==
    /\ op = "train" /\ tpc = "optimize"
    /\ trace' = trace \o OptimizeCalls
    /\ backpropagated' = [p \in Procs |-> <<losses[p]>>]
    /\ history' = Append(history, i)
    /\ tpc' = "checkpoint"
    /\ UNCHANGED <<op, cfg, max_iter, loss_keys, arguments, start_iter, fetched, i,
                   loss_dict, losses, logged, saved, checkpoints, resumes, resumed_at,
                   testVars, writes>>

\* lines 97-100: the periodic and the final checkpoint; the iteration's
\* loss_dict, losses and meter arguments go out of use with it
TrainCheckpoint ==
    /\ op = "train" /\ tpc = "checkpoint"
    /\ LET s == SaveCalls(i) IN
        /\ saved' = saved \o s
        /\ trace' = trace \o [k \in DOMAIN s |-> "save"]
        /\ checkpoints' = StoreAll(checkpoints, s)
        /\ writes' = writes \cup
              {[proc |-> p, path |-> s[k].name] : p \in {q \in Procs : save_to_disk(q)},
                                                  k \in DOMAIN s}
    /\ loss_dict' = [p \in Procs |-> EmptyDict]
    /\ losses' = [p \in Procs |-> 0]
    /\ logged' = [p \in Procs |-> EmptyDict]
    /\ backpropagated' = [p \in Procs |-> <<>>]
    /\ tpc' = "loop"
    /\ UNCHANGED <<op, cfg, max_iter, loss_keys, arguments, start_iter, fetched, i,
                   history, resumes, resumed_at, testVars>>

\* lines 21-38 of a relaunch: arguments = {"iteration": 0}, then
\* self.arguments.update(self.extra_checkpoint_data) with a loaded checkpoint
Resume ==
    /\ op = "train" /\ tpc = "done"
    /\ resumes < MaxResumes
    /\ \E c \in checkpoints :
        /\ arguments' = [iteration |-> c.iteration]
        /\ resumed_at' = <<Len(history), c.iteration>>
    /\ resumes' = resumes + 1
    /\ tpc' = "constructed"
    /\ start_iter' = 0
    /\ fetched' = 0
    /\ i' = 0
    /\ trace' = <<>>
    /\ saved' = <<>>
    /\ UNCHANGED <<op, cfg, max_iter, loss_keys, loss_dict, losses, logged,
                   backpropagated, checkpoints, history, testVars, writes>>

TrainNext ==
    \/ TrainStart
    \/ TrainIterate
    \/ TrainExhausted
    \/ TrainForward
    \/ TrainOptimize
    \/ TrainCheckpoint
    \/ Resume

\* ------------------------------------------------------------------ test()
\* lines 162-164: results_dict.update({img_id: result ...})
ResultsUpdate(p, image_ids) ==
    [results_dict EXCEPT ![p] = DictUpdate(results_dict[p], Zip(p, image_ids))]

\* lines 147-164: one pass of the inference loop.  With visualize set and no
\* "visualize" folder seen (line 125), the batch waits for the mkdir of line 126.
TestBatch(p) ==
    /\ op = "test" /\ pc[p] = "loop"
    /\ \E image_ids \in Batches(p) :
        IF visualize /\ ~Exists(VisualizeFolder)
        THEN /\ pc' = [pc EXCEPT ![p] = "mkdir"]
             /\ pending' = [pending EXCEPT ![p] = image_ids]
             /\ UNCHANGED <<results_dict, writes>>
        ELSE /\ writes' = IF visualize THEN writes \cup Imwrites(p, image_ids) ELSE writes
             /\ results_dict' = ResultsUpdate(p, image_ids)
             /\ UNCHANGED <<pc, pending>>
    /\ UNCHANGED <<op, trainVars, visualize, arrived, contributed, predictions,
                   predictions_pth, warnings, calls, retval>>

\* lines 126-133, 162-164: os.mkdir raises FileExistsError when another
\* process made the folder since the check of line 125
TestMkdir(p) ==
    /\ op = "test" /\ pc[p] = "mkdir"
    /\ IF Exists(VisualizeFolder)
       THEN /\ pc' = [pc EXCEPT ![p] = "FileExistsError"]
            /\ UNCHANGED <<results_dict, writes>>
       ELSE /\ writes' = writes \cup {[proc |-> p, path |-> VisualizeFolder]}
                                \cup Imwrites(p, pending[p])
            /\ results_dict' = ResultsUpdate(p, pending[p])
            /\ pc' = [pc EXCEPT ![p] = "loop"]
    /\ pending' = [pending EXCEPT ![p] = <<>>]
    /\ UNCHANGED <<op, trainVars, visualize, arrived, contributed, predictions,
                   predictions_pth, warnings, calls, retval>>

\* line 167: the test loader is exhausted, the process enters synchronize()
TestSynchronize(p) ==
    /\ op = "test" /\ pc[p] = "loop"
    /\ arrived' = arrived \cup {p}
    /\ calls' = [calls EXCEPT ![p].synchronize = @ + 1]
    /\ pc' = [pc EXCEPT ![p] = "synchronize"]
    /\ UNCHANGED <<op, trainVars, visualize, results_dict, pending, contributed,
                   predictions, predictions_pth, warnings, retval, writes>>

\* variant of TestAllGather: the is_main_process test of line 104 is taken
\* before the all_gather of line 103
TestAllGatherAfterMainCheck(p) ==
    /\ op = "test" /\ pc[p] = "synchronize"
    /\ ~Waiting(p)
    /\ IF ~is_main_process(p)
       THEN /\ pc' = [pc EXCEPT ![p] = "returned"]
            /\ retval' = [retval EXCEPT ![p] = "None"]
            /\ UNCHANGED <<contributed, calls>>
       ELSE /\ contributed' = contributed \cup {p}
            /\ calls' = [calls EXCEPT ![p].all_gather = @ + 1]
            /\ pc' = [pc EXCEPT ![p] = "all_gather"]
            /\ UNCHANGED retval
    /\ UNCHANGED <<op, trainVars, visualize, results_dict, pending, arrived,
                   predictions, predictions_pth, warnings, writes>>

\* lines 168-184, 103: synchronize() returns; the process enters all_gather()
TestAllGather(p) ==
    /\ op = "test" /\ pc[p] = "synchronize"
    /\ ~Waiting(p)
    /\ contributed' = contributed \cup {p}
    /\ calls' = [calls EXCEPT ![p].all_gather = @ + 1]
    /\ pc' = [pc EXCEPT ![p] = "all_gather"]
    /\ UNCHANGED <<op, trainVars, visualize, results_dict, pending, arrived,
                   predictions, predictions_pth, warnings, retval, writes>>

\* lines 104-105, 185-186: all_gather() returns; a process that is not the
\* main process returns None, the main process goes on to merge
TestGathered(p) ==
    /\ op = "test" /\ pc[p] = "all_gather"
    /\ ~Waiting(p)
    /\ IF ~is_main_process(p)
       THEN /\ pc' = [pc EXCEPT ![p] = "returned"]
            /\ retval' = [retval EXCEPT ![p] = "None"]
       ELSE /\ pc' = [pc EXCEPT ![p] = "merge"]
            /\ UNCHANGED retval
    /\ UNCHANGED <<op, trainVars, visualize, results_dict, pending, arrived,
                   contributed, predictions, predictions_pth, warnings, calls, writes>>

\* lines 107-121: merge, sort the ids, warn, convert to a list;
\* image_ids[-1] raises IndexError on an empty list
TestAccumulate(p) ==
    /\ op = "test" /\ pc[p] = "merge"
    /\ LET merged == MergeFrom(EmptyDict, all_gather(results_dict))
           image_ids == Sorted(DOMAIN merged)
       IN IF image_ids = <<>>
          THEN /\ pc' = [pc EXCEPT ![p] = "IndexError"]
               /\ UNCHANGED <<predictions, warnings>>
          ELSE /\ warnings' = IF Len(image_ids) # image_ids[Len(image_ids)] + 1
                              THEN warnings + 1 ELSE warnings
               /\ predictions' = <<[k \in DOMAIN image_ids |-> merged[image_ids[k]]]>>
               /\ pc' = [pc EXCEPT ![p] = "save"]
    /\ UNCHANGED <<op, trainVars, visualize, results_dict, pending, arrived,
                   contributed, predictions_pth, calls, retval, writes>>

\* lines 188-192: make the results folder, torch.save the predictions
TestSave(p) ==
    /\ op = "test" /\ pc[p] = "save"
    /\ writes' = writes
          \cup (IF Exists(OutputFolder) THEN {} ELSE {[proc |-> p, path |-> OutputFolder]})
          \cup {[proc |-> p, path |-> PredictionsPath]}
    /\ predictions_pth' = predictions
    /\ pc' = [pc EXCEPT ![p] = "evaluate"]
    /\ UNCHANGED <<op, trainVars, visualize, results_dict, pending, arrived,
                   contributed, predictions, warnings, calls, retval>>

\* lines 194-203: return evaluate(...)
TestEvaluate(p) ==
    /\ op = "test" /\ pc[p] = "evaluate"
    /\ calls' = [calls EXCEPT ![p].evaluate = @ + 1]
    /\ retval' = [retval EXCEPT ![p] = "evaluate"]
    /\ pc' = [pc EXCEPT ![p] = "returned"]
    /\ UNCHANGED <<op, trainVars, visualize, results_dict, pending, arrived,
                   contributed, predictions, predictions_pth, warnings, writes>>

TestNext ==
    \E p \in Procs :
        \/ TestBatch(p)
        \/ TestMkdir(p)
        \/ TestSynchronize(p)
        \/ TestAllGather(p)
        \/ TestGathered(p)
        \/ TestAccumulate(p)
        \/ TestSave(p)
        \/ TestEvaluate(p)

Next == TrainNext \/ TestNext

Spec == Init /\ [][Next]_vars

\* ------------------------------------------------- properties of train()
Range(s) == {s[k] : k \in DOMAIN s}
IsPeriodic(e) == Len(e.name) = 2
IsFinal(e) == e.name = <<"checkpoint_final">>
PeriodicAt == [k \in {j \in DOMAIN saved : IsPeriodic(saved[j])} |-> saved[k].at]
FinalSaves == {k \in DOMAIN saved : IsFinal(saved[k])}
\* the loop indices of this run whose checkpoint step is behind them
Completed ==
    IF tpc \in {"loop", "done"}
    THEN start_iter .. (start_iter + fetched - 1)
    ELSE IF tpc \in {"forward", "optimize", "checkpoint"}
         THEN start_iter .. (start_iter + fetched - 2)
         ELSE {}

\* C1: a train() run that consumes the whole loader saves "checkpoint_final"
\* exactly once, as the last save of the run, at the last iteration executed.
FinalCheckpointOnceAndLast ==
    tpc = "done" =>
        /\ Cardinality(FinalSaves) = 1
        /\ IsFinal(saved[Len(saved)])
        /\ saved[Len(saved)].at = start_iter + max_iter - 1

\* C2: a periodic checkpoint "checkpoint_<i>" is saved at iteration i exactly
\* when (i + 1) is a multiple of CHECKPOINT_PERIOD, at most once an iteration,
\* and consecutive periodic saves are CHECKPOINT_PERIOD iterations apart.
CheckpointCadence ==
    LET N == cfg.CHECKPOINT_PERIOD
        P == DOMAIN PeriodicAt
    IN /\ \A k \in P : /\ (saved[k].at + 1) % N = 0
                       /\ saved[k].name = <<"checkpoint_", saved[k].at>>
                       /\ saved[k].at \in Completed
       /\ \A idx \in Completed :
            Cardinality({k \in P : saved[k].at = idx}) = (IF (idx + 1) % N = 0 THEN 1 ELSE 0)
       /\ \A k \in P : \A m \in P :
            (k < m /\ ~ \E j \in P : k < j /\ j < m) => saved[m].at = saved[k].at + N

CheckpointCadenceWitness ==
    /\ cfg.CHECKPOINT_PERIOD = 2
    /\ tpc = "done"
    /\ Cardinality(DOMAIN PeriodicAt) = 2
    /\ Cardinality(Completed) = 3

\* the sum of the values of a dict, taken over its key set
RECURSIVE SumOver(_, _)
SumOver(d, K) ==
    IF K = {} THEN 0
    ELSE LET k == CHOOSE x \in K : TRUE IN d[k] + SumOver(d, K \ {k})

LoggedLossesReducedOverAllGPUs ==
    tpc \in {"optimize", "checkpoint"} =>
        \A p \in Procs : \A q \in Procs : logged[p] = logged[q]

ExpectedCalls ==
    <<"set_iteration", "scheduler.step", "forward", "zero_grad", "backward", "optimizer.step">>
SavesAt(idx) == {k \in DOMAIN saved : saved[k].at = idx}

\* C8: every iteration performs its delegated steps once each, in the order
\* iteration := i, scheduler step, forward, zero_grad, backward, optimizer
\* step, and saves a checkpoint for iteration i only after the optimizer step.
IterationStepOrder ==
    /\ tpc = "forward" => trace = SubSeq(ExpectedCalls, 1, 2)
    /\ tpc = "optimize" => trace = SubSeq(ExpectedCalls, 1, 3)
    /\ tpc = "checkpoint" => trace = ExpectedCalls /\ SavesAt(i) = {}
    /\ (tpc \in {"loop", "done"} /\ fetched > 0) =>
          /\ SubSeq(trace, 1, Len(ExpectedCalls)) = ExpectedCalls
          /\ \A k \in (Len(ExpectedCalls) + 1) .. Len(trace) : trace[k] = "save"
          /\ Len(trace) = Len(ExpectedCalls) + Cardinality(SavesAt(i))
    /\ (tpc \in {"forward", "optimize"}) => SavesAt(i) = {}

IterationStepOrderWitness ==
    /\ tpc = "loop"
    /\ Len(trace) = Len(ExpectedCalls) + 2

\* C10: the "iteration" stored with every checkpoint is the index i of the
\* iteration whose optimizer step has just completed, and a run started from
\* that checkpoint begins its loop at i, so index i is executed before the
\* save and again after the resume.
CheckpointIterationIsLoopIndex ==
    /\ \A k \in DOMAIN saved :
          /\ saved[k].iteration = saved[k].at
          /\ saved[k].at \in Range(history)
    /\ \A c \in checkpoints : c.iteration \in Range(history)
    /\ (resumed_at # <<>> /\ tpc # "constructed") => start_iter = resumed_at[2]
    /\ (resumed_at # <<>> /\ Len(history) > resumed_at[1]) =>
          /\ history[resumed_at[1] + 1] = resumed_at[2]
          /\ \E k \in 1 .. resumed_at[1] : history[k] = resumed_at[2]

CheckpointIterationIsLoopIndexWitness ==
    /\ resumed_at # <<>>
    /\ Len(history) > resumed_at[1]
    /\ resumed_at[2] > 0
    /\ saved # <<>>

\* -------------------------------------------------- properties of test()
\* C3: no file is written by a process that is not the main process.
OnlyMainProcessWritesFiles ==
    \A w \in writes : is_main_process(w.proc)

GatheredIds == UNION {DOMAIN results_dict[p] : p \in Procs}
Contiguous(S) == S = 0 .. (Cardinality(S) - 1)

\* C4: _accumulate_predictions_from_multiple_gpus never raises on the main
\* process, whatever ids were gathered (the empty set included); it warns once
\* exactly when the ids are not 0..N-1 and returns the list of predictions.
AccumulateNeverRaises ==
    \A p \in Procs :
        /\ pc[p] # "IndexError"
        /\ pc[p] \in {"save", "evaluate", "returned"} /\ is_main_process(p) =>
              /\ warnings = (IF Contiguous(GatheredIds) THEN 0 ELSE 1)
              /\ predictions # <<>>

\* the process latest in all_gather order that produced image img
LastProducer(img) ==
    CHOOSE p \in Procs :
        /\ img \in DOMAIN results_dict[p]
        /\ \A q \in Procs : img \in DOMAIN results_dict[q] => q <= p

\* C5: predictions.pth holds the merge of every process's results_dict: one
\* entry per image id, in ascending id order, each the result of the process
\* latest in all_gather order that produced the id.
SavedPredictionsAreMerge ==
    /\ Exists(PredictionsPath) <=> predictions_pth # <<>>
    /\ predictions_pth # <<>> =>
          LET list == predictions_pth[1] IN
          /\ Len(list) = Cardinality(GatheredIds)
          /\ \A img \in GatheredIds :
                list[Cardinality({j \in GatheredIds : j <= img})]
                    = results_dict[LastProducer(img)][img]

SavedPredictionsAreMergeWitness ==
    /\ predictions_pth # <<>>
    /\ \E img \in GatheredIds : \A p \in Procs : img \in DOMAIN results_dict[p]
    /\ \E img \in GatheredIds : \E p \in Procs : img \notin DOMAIN results_dict[p]

Finished(p) == pc[p] \in {"returned", "IndexError"}
\* a process that is neither finished nor blocked has a step of test() to take
RunnableIsEnabled ==
    op = "test" =>
        ((\E p \in Procs : ~Finished(p) /\ pc[p] # "FileExistsError" /\ ~Waiting(p))
            <=> ENABLED TestNext)

\* C9: every process calls synchronize() once after its loop and all_gather
\* once after that, before any process returns; a process that is not the main
\* process returns None without evaluating and only the main process calls
\* evaluate; once every process has finished its inference loop, some process
\* can take a step (none is left blocked in the barrier or the gather) until
\* every process has finished.
TestSynchronizesThenGathers ==
    /\ \A p \in Procs :
        /\ calls[p].synchronize <= 1 /\ calls[p].all_gather <= 1
        /\ calls[p].all_gather = 1 => \A q \in Procs : calls[q].synchronize = 1
        /\ pc[p] \in {"returned", "IndexError"} =>
              \A q \in Procs : calls[q].synchronize = 1 /\ calls[q].all_gather = 1
        /\ (pc[p] = "returned" /\ ~is_main_process(p)) =>
              retval[p] = "None" /\ calls[p].evaluate = 0
        /\ (pc[p] = "returned" /\ is_main_process(p)) =>
              retval[p] = "evaluate" /\ calls[p].evaluate = 1
        /\ calls[p].evaluate > 0 => is_main_process(p)
    /\ (op = "test" /\ \A p \in Procs : pc[p] \notin {"loop", "mkdir", "FileExistsError"}) =>
        \/ \A p \in Procs : Finished(p)
        \/ \E p \in Procs : ~Finished(p) /\ ~Waiting(p)

TestSynchronizesThenGathersWitness ==
    /\ op = "test"
    /\ \A p \in Procs : pc[p] = "returned"
    /\ GatheredIds # {}

====
